---- MODULE Spec2Model ----
(***************************************************************************)
(* PiClock.ino: a binary clock.  The host bit-bangs the DS1302 three-wire  *)
(* protocol (select "rst", clock "clk", bidirectional data "dat"), decodes *)
(* the BCD clock image, renders it on a ring of 12 RGB pixels and beeps at *)
(* a fixed time of day.                                                    *)
(*                                                                         *)
(* Host code is modelled one pin operation (digitalWrite, pinMode,         *)
(* digitalRead) per action; the chip reacts to the edges it sees within    *)
(* the same step.  The chip's time advances in an action of its own.       *)
(***************************************************************************)
EXTENDS Integers, Sequences, FiniteSets, TLC

\* ------------------------------------------------------------- bounds
\* How often the chip's time may advance by one second in one behaviour.
MaxTicks == 2
\* How many bus sessions the session history keeps.
MaxSessions == 3

\* ------------------------------------------------- program constants
n_pixels == 12
DS1302_SECONDS == 128
DS1302_MINUTES == 130
DS1302_ENABLE == 142
\* (as DS1302_TRICKLE, but the address of the first RAM byte)
DS1302_TRICKLE_RamStart == DS1302_ENABLE + 50
DS1302_TRICKLE == 144
DS1302_CLOCK_BURST_WRITE == 190
DS1302_CLOCK_BURST_READ_Seconds == DS1302_SECONDS + 1
\* (as DS1302_CLOCK_BURST_READ, but the read bit is clear: the burst write)
DS1302_CLOCK_BURST_READ_BitClear == DS1302_CLOCK_BURST_WRITE
DS1302_CLOCK_BURST_READ == 191
DS1302_RAMSTART == 192
DS1302_READBIT == 0

\* ------------------------------------------------------- bit helpers
Pow2(n) == 2 ^ n
\* bitRead(value, bit)
BitRead(v, b) == (v \div Pow2(b)) % 2
\* bitSet(value, bit)
BitSet(v, b) == IF BitRead(v, b) = 1 THEN v ELSE v + Pow2(b)
\* bitClear(value, bit)
BitClear(v, b) == IF BitRead(v, b) = 1 THEN v - Pow2(b) ELSE v
\* bitWrite(value, bit, bitvalue)
BitWrite(v, b, x) == IF x = 1 THEN BitSet(v, b) ELSE BitClear(v, b)
\* conversion of an int argument to a uint8_t parameter
U8(v) == v % 256

VARIABLES
  main,          \* position of setup()/loop(), or of the harness driving the bus
  pc,            \* position inside the protocol operation in progress
  op,            \* the protocol operation in progress (or completed last)
  call,          \* its arguments and locals: address, data, bytes written, bytes read, result
  bitio,         \* locals of DS1302_togglewrite / DS1302_toggleread: data, release, i
  p,             \* the 8-byte buffer of a burst operation (loop's rtc)
  pins,          \* the three host pins: direction and port latch
  chip,          \* the device's protocol engine
  regs,          \* the device's registers
  dev,           \* the kind of device on the bus
  nticks,        \* seconds the chip's time has advanced
  hms,           \* loop's h, m, s
  leds,          \* loop's reds, greens, blues arrays
  npix,          \* loop's i in the set-pixels loop
  pixels,        \* the strip driver's pixel buffer
  shown,         \* the colours the strip displays
  is_pi_oclock,  \* the alert latch
  tone,          \* tone() was called in this loop iteration
  wire,          \* history: what the host did on the bus in this operation
  emit,          \* history: the bits the device put on the data line in this session
  held,          \* history: the clock images the device held during this session
  polls,         \* history: the previous poll's h, m, s; tones in this run of pi polls; tones so far
  log,           \* history: what this loop iteration did so far, and the array indices it wrote
  sessions       \* history: the first bus sessions of the program, each as the bytes it moved

vars == <<main, pc, op, call, bitio, p, pins, chip, regs, dev, nticks, hms, leds, npix, pixels, shown, is_pi_oclock, tone, wire, emit, held, polls, log, sessions>>

busVars == <<pc, op, call, bitio, p, pins, chip, regs, wire, emit, held, sessions>>
loopVars == <<hms, leds, npix, pixels, shown, is_pi_oclock, tone, polls, log>>

\* ------------------------------------------------------------- pins
\* At power-on every pin is a high-impedance input without pull-up.
PowerOnPins == [q \in {"rst", "clk", "dat"} |-> [mode |-> "INPUT", val |-> 0]]
\* digitalWrite: sets the port latch (the level of an output, the pull-up of an input)
DigitalWrite(ps, pin, v) == [ps EXCEPT ![pin].val = v]
\* pinMode: INPUT also removes the pull-up, OUTPUT drives the port latch
PinMode(ps, pin, m) == IF m = "INPUT" THEN [ps EXCEPT ![pin] = [mode |-> "INPUT", val |-> 0]] ELSE [ps EXCEPT ![pin].mode = "OUTPUT"]
\* The level of the select and clock lines: the chip pulls an undriven line down.
Level(ps, pin) == IF ps[pin].mode = "OUTPUT" THEN ps[pin].val ELSE 0
\* The levels the data line can take: driven by the host, by the chip, by both
\* (contention: either level when they disagree) or by neither (pulled down by
\* the chip, against the host's pull-up if that is on).
DatLevels(ps, c) ==
  IF ps.dat.mode = "OUTPUT" /\ c.out # -1 THEN {ps.dat.val, c.out}
  ELSE IF ps.dat.mode = "OUTPUT" THEN {ps.dat.val}
  ELSE IF c.out # -1 THEN {c.out}
  ELSE IF ps.dat.val = 1 THEN {0, 1}
  ELSE {0}

\* ------------------------------------------------------------- chip
\* Registers: 0..7 the clock image (seconds, minutes, hours, date, month, day,
\* year, control), 8 the trickle charger, 32 the first RAM byte.
RegIdx == (0..8) \cup {32}
\* The two clock burst commands of the chip: "Start by writing 0xBF", "0xBE".
ChipClockBurstRead == 191
ChipClockBurstWrite == 190
\* bits 6..1 of a command byte select the register (bit 6: RAM area)
RegOf(cmd) == (cmd \div 2) % 64
RegRead(r, cmd) == IF RegOf(cmd) \in RegIdx THEN r[RegOf(cmd)] ELSE 0
BcdVal(b) == (b \div 16) * 10 + (b % 16)
ToBcd(n) == (n \div 10) * 16 + (n % 10)
\* the time of day the clock registers hold, <<hour, minute, second>>
ChipTime(r) == <<BcdVal(r[2] % 64), BcdVal(r[1] % 128), BcdVal(r[0] % 128)>>
ClockImage(r) == [j \in 1..8 |-> r[j - 1]]
IdleChip == [phase |-> "idle", nbits |-> 0, cmd |-> 0, sh |-> 0, out |-> -1, oidx |-> 0, buf |-> <<>>]
\* What a read command makes the chip send: burst read latches the whole clock
\* image, a register read sends (and resends) that register.  The loopback
\* device sends back the byte it received.
ChipReadData(d, cmd, r) ==
  IF d = "loopback" THEN <<cmd>>
  ELSE IF cmd = ChipClockBurstRead THEN ClockImage(r)
  ELSE <<RegRead(r, cmd)>>
\* A received data byte is stored unless write-protected (the control register
\* itself can always be written); in a clock burst the k-th byte goes to register k.
ChipStore(r, cmd, k, byte) ==
  LET idx == IF cmd = ChipClockBurstWrite THEN k ELSE RegOf(cmd)
      wp == BitRead(r[7], 7) = 1
  IN  IF idx \in RegIdx /\ (~wp \/ idx = 7) /\ (cmd = ChipClockBurstWrite => k < 8)
      THEN [r EXCEPT ![idx] = byte] ELSE r
\* select goes active: a session starts with the command byte
ChipOnCeRise(c) == [IdleChip EXCEPT !.phase = "cmd"]
\* select goes inactive: the chip releases the data line
ChipOnCeFall(c) == IdleChip
\* rising clock edge: the chip samples the data line
ChipOnClkRise(d, c, r, b) ==
  IF c.phase = "cmd" THEN
    LET cmd == BitWrite(c.cmd, c.nbits, b) IN
    IF c.nbits < 7 THEN [c EXCEPT !.cmd = cmd, !.nbits = c.nbits + 1]
    ELSE IF d = "ds1302" /\ BitRead(cmd, 7) = 0 THEN [c EXCEPT !.cmd = cmd, !.nbits = 8, !.phase = "ignore"]
    ELSE IF d = "loopback" \/ BitRead(cmd, DS1302_READBIT) = 1
      THEN [c EXCEPT !.cmd = cmd, !.nbits = 8, !.phase = "rd", !.buf = ChipReadData(d, cmd, r)]
    ELSE [c EXCEPT !.cmd = cmd, !.nbits = 8, !.phase = "wr"]
  ELSE IF c.phase = "wr" THEN [c EXCEPT !.sh = IF c.nbits % 8 = 7 THEN 0 ELSE BitWrite(c.sh, c.nbits % 8, b), !.nbits = c.nbits + 1]
  ELSE c
ChipRegsOnClkRise(c, r, b) ==
  IF c.phase = "wr" /\ c.nbits % 8 = 7 THEN ChipStore(r, c.cmd, (c.nbits \div 8) - 1, BitWrite(c.sh, 7, b)) ELSE r
\* falling clock edge: in a read the chip puts the next bit on the data line
ChipOnClkFall(c) ==
  IF c.phase = "rd" THEN [c EXCEPT !.out = BitRead(c.buf[((c.oidx \div 8) % Len(c.buf)) + 1], c.oidx % 8), !.oidx = c.oidx + 1]
  ELSE c
\* The chip's reaction to one host pin operation that took the pins from `old`
\* to `new` while the data line was at level b.
ChipReact(d, c, r, e, h, old, new, b) ==
  LET ce0 == Level(old, "rst")
      ce1 == Level(new, "rst")
      ck0 == Level(old, "clk")
      ck1 == Level(new, "clk")
  IN  IF ce0 = 0 /\ ce1 = 1 THEN [chip |-> ChipOnCeRise(c), regs |-> r, emit |-> <<>>, held |-> {ClockImage(r)}]
      ELSE IF ce0 = 1 /\ ce1 = 0 THEN [chip |-> ChipOnCeFall(c), regs |-> r, emit |-> e, held |-> h]
      ELSE IF ce1 = 1 /\ ck0 = 0 /\ ck1 = 1 THEN [chip |-> ChipOnClkRise(d, c, r, b), regs |-> ChipRegsOnClkRise(c, r, b), emit |-> e, held |-> h]
      ELSE IF ce1 = 1 /\ ck0 = 1 /\ ck1 = 0 THEN [chip |-> ChipOnClkFall(c), regs |-> r, emit |-> IF c.phase = "rd" THEN Append(e, ChipOnClkFall(c).out) ELSE e, held |-> h]
      ELSE [chip |-> c, regs |-> r, emit |-> e, held |-> h]

\* One second passes (clock not halted): seconds, minutes, hours, then the date.
TickRegs(r) ==
  LET t == ChipTime(r)
      s1 == (t[3] + 1) % 60
      m1 == IF s1 = 0 THEN (t[2] + 1) % 60 ELSE t[2]
      h1 == IF s1 = 0 /\ m1 = 0 THEN (t[1] + 1) % 24 ELSE t[1]
      day == s1 = 0 /\ m1 = 0 /\ h1 = 0
  IN  [r EXCEPT ![0] = ToBcd(s1), ![1] = ToBcd(m1), ![2] = ToBcd(h1),
                ![3] = IF day THEN ToBcd(BcdVal(r[3]) + 1) ELSE r[3],
                ![5] = IF day THEN (r[5] % 7) + 1 ELSE r[5]]
ChipTick ==
  /\ nticks < MaxTicks
  /\ dev = "ds1302"
  /\ BitRead(regs[0], 7) = 0
  /\ regs' = TickRegs(regs)
  /\ nticks' = nticks + 1
  /\ held' = IF chip.phase = "idle" THEN held ELSE held \cup {ClockImage(TickRegs(regs))}
  /\ UNCHANGED <<main, pc, op, call, bitio, p, pins, chip, dev, wire, emit, sessions>>
  /\ UNCHANGED loopVars

\* ------------------------------------------------------ bus driver
\* One host pin operation: the pins change and the chip reacts.
PinStep(np, b) ==
  LET re == ChipReact(dev, chip, regs, emit, held, pins, np, b)
  IN  /\ pins' = np
      /\ chip' = re.chip
      /\ regs' = re.regs
      /\ emit' = re.emit
      /\ held' = re.held

\* The arguments and locals of a call of togglewrite, and of toggleread.
TogglewriteCall(data, release) == [data |-> U8(data), release |-> release, i |-> 0]
TogglereadCall == [data |-> 0, release |-> FALSE, i |-> 0]

\* Where a protocol operation goes on when DS1302_start has returned.
AfterStart(o, c, buf) ==
  CASE o = "read" -> TogglewriteCall(c.address, TRUE)
    [] o = "write" -> TogglewriteCall(c.address, FALSE)
    [] o = "burst_read" -> TogglewriteCall(DS1302_CLOCK_BURST_READ, TRUE)
    [] o = "burst_write" -> TogglewriteCall(DS1302_CLOCK_BURST_WRITE, FALSE)
    [] o = "loopback" -> TogglewriteCall(c.address, c.release)

\* Where it goes on when DS1302_togglewrite has returned: [pc, bitio].
\* c.nw counts the bytes written so far, this one included.
AfterTogglewrite(o, c, buf) ==
  CASE o \in {"read", "burst_read", "loopback"} -> [pc |-> "tr_up", bitio |-> TogglereadCall]
    [] o = "write" -> IF c.nw = 1 THEN [pc |-> "tw_data", bitio |-> TogglewriteCall(c.data, FALSE)] ELSE [pc |-> "stop", bitio |-> bitio]
    [] o = "burst_write" -> IF c.nw # 9 THEN [pc |-> "tw_data", bitio |-> TogglewriteCall(buf[c.nw], FALSE)] ELSE [pc |-> "stop", bitio |-> bitio]

\* (as AfterToggleread, but the burst read loops once more)
AfterToggleread_NineBytes(o, c) ==
  IF o = "burst_read" /\ c.nr # 9 THEN "tr_up" ELSE "stop"
\* Where it goes on when DS1302_toggleread has returned: the burst read loops
\* until 8 bytes are stored.  c.nr counts the bytes read, this one included.
AfterToggleread(o, c) ==
  IF o = "burst_read" /\ c.nr # 8 THEN "tr_up" ELSE "stop"

\* *p++ = DS1302_toggleread(): the byte goes behind those already stored
\* (as StoreByte, but the pointer runs backwards)
StoreByte_Backwards(buf, d) == <<d>> \o buf
StoreByte(buf, d) == Append(buf, d)

\* DS1302_start ----------------------------------------------------
Start_ResetLow ==
  /\ pc = "start_reset_low"
  /\ PinStep(DigitalWrite(pins, "rst", 0), 0)
  /\ pc' = "start_reset_output"
  /\ UNCHANGED <<main, sessions, op, call, bitio, p, dev, nticks, wire>>
  /\ UNCHANGED loopVars
Start_ResetOutput ==
  /\ pc = "start_reset_output"
  /\ PinStep(PinMode(pins, "rst", "OUTPUT"), 0)
  /\ pc' = "start_clock_low"
  /\ UNCHANGED <<main, sessions, op, call, bitio, p, dev, nticks, wire>>
  /\ UNCHANGED loopVars
Start_ClockLow ==
  /\ pc = "start_clock_low"
  /\ PinStep(DigitalWrite(pins, "clk", 0), 0)
  /\ pc' = "start_clock_output"
  /\ UNCHANGED <<main, sessions, op, call, bitio, p, dev, nticks, wire>>
  /\ UNCHANGED loopVars
\* (as Start_ClockOutput, but the pinMode call is left out)
Start_ClockOutput_Skipped ==
  /\ pc = "start_clock_output"
  /\ PinStep(pins, 0)
  /\ pc' = "start_data_output"
  /\ UNCHANGED <<main, sessions, op, call, bitio, p, dev, nticks, wire>>
  /\ UNCHANGED loopVars
Start_ClockOutput ==
  /\ pc = "start_clock_output"
  /\ PinStep(PinMode(pins, "clk", "OUTPUT"), 0)
  /\ pc' = "start_data_output"
  /\ UNCHANGED <<main, sessions, op, call, bitio, p, dev, nticks, wire>>
  /\ UNCHANGED loopVars
Start_DataOutput ==
  /\ pc = "start_data_output"
  /\ PinStep(PinMode(pins, "dat", "OUTPUT"), 0)
  /\ pc' = "start_reset_high"
  /\ UNCHANGED <<main, sessions, op, call, bitio, p, dev, nticks, wire>>
  /\ UNCHANGED loopVars
Start_ResetHigh ==
  /\ pc = "start_reset_high"
  /\ PinStep(DigitalWrite(pins, "rst", 1), 0)
  /\ wire' = Append(wire, <<"S", Level(pins, "clk")>>)
  /\ bitio' = AfterStart(op, call, p)
  /\ pc' = "tw_data"
  /\ UNCHANGED <<main, sessions, op, call, p, dev, nticks>>
  /\ UNCHANGED loopVars

\* DS1302_stop -----------------------------------------------------
\* What a session moved, from its bus history: the bytes clocked out (one bit
\* per rising edge of a write, least significant first) and the number of
\* bits sampled.
WrittenBits(w) == SelectSeq(w, LAMBDA e : e[1] = "W")
SessionByte(wb, k) == LET B(j) == wb[(8 * (k - 1)) + j + 1][2] * (2 ^ j) IN B(0) + B(1) + B(2) + B(3) + B(4) + B(5) + B(6) + B(7)
SessionOf(w) == [out |-> [k \in 1..(Len(WrittenBits(w)) \div 8) |-> SessionByte(WrittenBits(w), k)], nread |-> Cardinality({n \in 1..Len(w) : w[n][1] = "R"})]
\* The session history is kept of setup() and loop(), for the first sessions.
ProgramPositions == {"setup_enable", "setup_trickle", "setup_pixels", "loop", "decode", "render", "setpix", "show", "alert", "delay"}
Stop_ResetLow ==
  /\ pc = "stop"
  /\ PinStep(DigitalWrite(pins, "rst", 0), 0)
  /\ wire' = Append(wire, <<"E", Level(pins, "clk")>>)
  /\ sessions' = IF main \in ProgramPositions /\ Len(sessions) < MaxSessions THEN Append(sessions, SessionOf(wire)) ELSE sessions
  /\ pc' = "idle"
  /\ UNCHANGED <<main, op, call, bitio, p, dev, nticks>>
  /\ UNCHANGED loopVars

\* DS1302_togglewrite ----------------------------------------------
\* (as Togglewrite_SetData, but most significant bit first)
Togglewrite_SetData_MsbFirst ==
  /\ pc = "tw_data"
  /\ PinStep(DigitalWrite(pins, "dat", BitRead(bitio.data, 7 - bitio.i)), 0)
  /\ pc' = "tw_clock_up"
  /\ UNCHANGED <<main, sessions, op, call, bitio, p, dev, nticks, wire>>
  /\ UNCHANGED loopVars
\* set a bit of the data on the I/O-line
Togglewrite_SetData ==
  /\ pc = "tw_data"
  /\ PinStep(DigitalWrite(pins, "dat", BitRead(bitio.data, bitio.i)), 0)
  /\ pc' = "tw_clock_up"
  /\ UNCHANGED <<main, sessions, op, call, bitio, p, dev, nticks, wire>>
  /\ UNCHANGED loopVars
\* (as Togglewrite_ClockUp, but the clock always goes down again: no release)
Togglewrite_ClockUp_NoRelease ==
  /\ pc = "tw_clock_up"
  /\ \E b \in DatLevels(pins, chip) :
       /\ PinStep(DigitalWrite(pins, "clk", 1), b)
       /\ wire' = Append(wire, <<"W", b>>)
  /\ pc' = "tw_clock_down"
  /\ UNCHANGED <<main, sessions, op, call, bitio, p, dev, nticks>>
  /\ UNCHANGED loopVars
\* clock up, data is read by DS1302
Togglewrite_ClockUp ==
  /\ pc = "tw_clock_up"
  /\ \E b \in DatLevels(pins, chip) :
       /\ PinStep(DigitalWrite(pins, "clk", 1), b)
       /\ wire' = Append(wire, <<"W", b>>)
  /\ pc' = IF bitio.release /\ bitio.i = 7 THEN "tw_release" ELSE "tw_clock_down"
  /\ UNCHANGED <<main, sessions, op, call, bitio, p, dev, nticks>>
  /\ UNCHANGED loopVars
\* What every last step of a togglewrite loop pass does next: ++i, and at
\* i = 8 the return to the caller.
TogglewriteNext ==
  LET c1 == [call EXCEPT !.nw = call.nw + 1]
      nx == AfterTogglewrite(op, c1, p)
  IN  IF bitio.i + 1 # 8
      THEN /\ bitio' = [bitio EXCEPT !.i = bitio.i + 1]
           /\ pc' = "tw_data"
           /\ call' = call
      ELSE /\ bitio' = nx.bitio
           /\ pc' = nx.pc
           /\ call' = c1
\* (as Togglewrite_Release, but the data pin stays an output)
Togglewrite_Release_KeepOutput ==
  /\ pc = "tw_release"
  /\ PinStep(pins, 0)
  /\ wire' = Append(wire, <<"Z", Level(pins, "clk")>>)
  /\ TogglewriteNext
  /\ UNCHANGED <<main, sessions, op, p, dev, nticks>>
  /\ UNCHANGED loopVars
\* release the I/O-line after the last bit, leaving the clock high
Togglewrite_Release ==
  /\ pc = "tw_release"
  /\ PinStep(PinMode(pins, "dat", "INPUT"), 0)
  /\ wire' = Append(wire, <<"Z", Level(pins, "clk")>>)
  /\ TogglewriteNext
  /\ UNCHANGED <<main, sessions, op, p, dev, nticks>>
  /\ UNCHANGED loopVars
Togglewrite_ClockDown ==
  /\ pc = "tw_clock_down"
  /\ PinStep(DigitalWrite(pins, "clk", 0), 0)
  /\ TogglewriteNext
  /\ UNCHANGED <<main, sessions, op, p, dev, nticks, wire>>
  /\ UNCHANGED loopVars

\* DS1302_toggleread -----------------------------------------------
\* Issue a clock pulse for the next databit
Toggleread_ClockUp ==
  /\ pc = "tr_up"
  /\ \E b \in DatLevels(pins, chip) : PinStep(DigitalWrite(pins, "clk", 1), b)
  /\ pc' = "tr_down"
  /\ UNCHANGED <<main, sessions, op, call, bitio, p, dev, nticks, wire>>
  /\ UNCHANGED loopVars
\* (as Toggleread_ClockDown, but the clock is left high)
Toggleread_ClockDown_LeftHigh ==
  /\ pc = "tr_down"
  /\ PinStep(pins, 0)
  /\ pc' = "tr_read"
  /\ UNCHANGED <<main, sessions, op, call, bitio, p, dev, nticks, wire>>
  /\ UNCHANGED loopVars
\* Clock down, data is ready after some time
Toggleread_ClockDown ==
  /\ pc = "tr_down"
  /\ PinStep(DigitalWrite(pins, "clk", 0), 0)
  /\ pc' = "tr_read"
  /\ UNCHANGED <<main, sessions, op, call, bitio, p, dev, nticks, wire>>
  /\ UNCHANGED loopVars
\* read bit, and set it in place in 'data' variable; ++i, and at i = 8 the
\* return of the byte to the caller, which stores it
Toggleread_ReadBit ==
  /\ pc = "tr_read"
  /\ \E b \in DatLevels(pins, chip) :
       LET d == BitWrite(bitio.data, bitio.i, b)
           c1 == [call EXCEPT !.nr = call.nr + 1, !.ret = d]
       IN  /\ wire' = Append(wire, <<"R", b>>)
           /\ IF bitio.i + 1 # 8
              THEN /\ bitio' = [bitio EXCEPT !.data = d, !.i = bitio.i + 1]
                   /\ pc' = "tr_up"
                   /\ UNCHANGED <<call, p>>
              ELSE /\ bitio' = TogglereadCall
                   /\ pc' = AfterToggleread(op, c1)
                   /\ call' = c1
                   /\ p' = IF op = "burst_read" THEN StoreByte(p, d) ELSE p
  /\ UNCHANGED <<main, sessions, op, pins, chip, regs, emit, held, dev, nticks>>
  /\ UNCHANGED loopVars

BusStep ==
  \/ Start_ResetLow
  \/ Start_ResetOutput
  \/ Start_ClockLow
  \/ Start_ClockOutput
  \/ Start_DataOutput
  \/ Start_ResetHigh
  \/ Togglewrite_SetData
  \/ Togglewrite_ClockUp
  \/ Togglewrite_Release
  \/ Togglewrite_ClockDown
  \/ Toggleread_ClockUp
  \/ Toggleread_ClockDown
  \/ Toggleread_ReadBit
  \/ Stop_ResetLow

\* ------------------------------------------- register protocol layer
NoCall == [arg |-> 0, address |-> 0, data |-> 0, release |-> FALSE, nw |-> 0, nr |-> 0, ret |-> 0]
\* (as DS1302_read, but the read bit is left as the caller passed it)
DS1302_read_NoBitSet(address) ==
  /\ op' = "read"
  /\ call' = [NoCall EXCEPT !.arg = address, !.address = address]
  /\ pc' = "start_reset_low"
  /\ wire' = <<>>
  /\ UNCHANGED <<bitio, p>>
\* DS1302_read(address): set the read bit, then start the session
DS1302_read(address) ==
  /\ op' = "read"
  /\ call' = [NoCall EXCEPT !.arg = address, !.address = BitSet(address, DS1302_READBIT)]
  /\ pc' = "start_reset_low"
  /\ wire' = <<>>
  /\ UNCHANGED <<bitio, p>>
\* (as DS1302_write, but the read bit is left as the caller passed it)
DS1302_write_NoBitClear(address, data) ==
  /\ op' = "write"
  /\ call' = [NoCall EXCEPT !.arg = address, !.address = address, !.data = data]
  /\ pc' = "start_reset_low"
  /\ wire' = <<>>
  /\ UNCHANGED <<bitio, p>>
\* DS1302_write(address, data): clear the read bit, then start the session
DS1302_write(address, data) ==
  /\ op' = "write"
  /\ call' = [NoCall EXCEPT !.arg = address, !.address = BitClear(address, DS1302_READBIT), !.data = data]
  /\ pc' = "start_reset_low"
  /\ wire' = <<>>
  /\ UNCHANGED <<bitio, p>>
\* DS1302_clock_burst_read(p): p is filled byte by byte
DS1302_clock_burst_read ==
  /\ op' = "burst_read"
  /\ call' = NoCall
  /\ p' = <<>>
  /\ pc' = "start_reset_low"
  /\ wire' = <<>>
  /\ UNCHANGED bitio
\* DS1302_clock_burst_write(p)
DS1302_clock_burst_write(buf) ==
  /\ op' = "burst_write"
  /\ call' = NoCall
  /\ p' = buf
  /\ pc' = "start_reset_low"
  /\ wire' = <<>>
  /\ UNCHANGED bitio

\* ------------------------------------------------------ time decoder
\* The bit-fields of struct Ds1302 over the bytes the burst read stored
\* (first declared field in the least significant bits).
Ds1302_Seconds(rtc) == rtc[1] % 16
\* (as Ds1302_Seconds10, but 4 bits wide: the clock-halt bit is taken in)
Ds1302_Seconds10_FourBits(rtc) == (rtc[1] \div 16) % 16
Ds1302_Seconds10(rtc) == (rtc[1] \div 16) % 8
Ds1302_Minutes(rtc) == rtc[2] % 16
Ds1302_Minutes10(rtc) == (rtc[2] \div 16) % 8
Ds1302_h24_Hour(rtc) == rtc[3] % 16
\* (as Ds1302_h24_Hour10, but 3 bits wide: the reserved bit is taken in)
Ds1302_h24_Hour10_ThreeBits(rtc) == (rtc[3] \div 16) % 8
Ds1302_h24_Hour10(rtc) == (rtc[3] \div 16) % 4
\* loop's h, m and s
DecodeHour(rtc) == (Ds1302_h24_Hour10(rtc) * 10) + Ds1302_h24_Hour(rtc)
DecodeMinute(rtc) == (Ds1302_Minutes10(rtc) * 10) + Ds1302_Minutes(rtc)
DecodeSecond(rtc) == (Ds1302_Seconds10(rtc) * 10) + Ds1302_Seconds(rtc)
Decode(rtc) == [h |-> DecodeHour(rtc), m |-> DecodeMinute(rtc), s |-> DecodeSecond(rtc)]

\* ---------------------------------------------------- display mapper
first_second == 0
first_minute == 4
first_hour == 8
led_brightness_on == 32
led_brightness_off == 0
Pixel == 0..(n_pixels - 1)
\* Clear arrays
Cleared == [q \in Pixel |-> 0]
\* value & (1 << i) ? on : off
BitBrightness(value, i) == IF BitRead(value, i) # 0 THEN led_brightness_on ELSE led_brightness_off
\* (as PixelIndex, but without the wrap around the ring)
PixelIndex_NoWrap(i, first) == i + first
\* the array index a set loop writes in pass i: (i + first) % n_pixels
PixelIndex(i, first) == (i + first) % n_pixels
\* (as SetBits, but the loop stops one bit early)
RECURSIVE SetBits_FiveBits(_, _, _, _)
SetBits_FiveBits(arr, value, first, i) ==
  IF i = 5 THEN arr
  ELSE SetBits_FiveBits([arr EXCEPT ![(i + first) % n_pixels] = BitBrightness(value, i)], value, first, i + 1)
\* for (i = from; i != 6; ++i) arr[(i + first) % n_pixels] = value & (1 << i) ? on : off
RECURSIVE SetBits(_, _, _, _)
SetBits(arr, value, first, i) ==
  IF i = 6 THEN arr
  ELSE SetBits([arr EXCEPT ![PixelIndex(i, first)] = BitBrightness(value, i)], value, first, i + 1)
\* the array indices the passes i, i + 1, ... of a set loop write
RECURSIVE SetBitsTouched(_, _)
SetBitsTouched(first, i) ==
  IF i = 6 THEN {}
  ELSE {PixelIndex(i, first)} \cup SetBitsTouched(first, i + 1)
\* (as Inverted, but the value is left as it is)
Inverted_Not(x) == x
\* x == on ? off : on
Inverted(x) == IF x = led_brightness_on THEN led_brightness_off ELSE led_brightness_on
\* (as BlinkNow, but every ten seconds)
BlinkNow_EveryTen(s) == s % 10 = 0
\* Blink initial positions: the condition
BlinkNow(s) == s % 5 = 0
\* The three arrays before the blink
RenderBits(t) == [reds |-> SetBits(Cleared, t.s, first_second, 0), greens |-> SetBits(Cleared, t.m, first_minute, 0), blues |-> SetBits(Cleared, t.h, first_hour, 0)]
\* Blink initial positions
Blink(a, t) ==
  IF BlinkNow(t.s)
  THEN [a EXCEPT !.greens[first_minute] = Inverted(a.greens[first_minute]), !.blues[first_hour] = Inverted(a.blues[first_hour])]
  ELSE a
Render(t) == Blink(RenderBits(t), t)
\* The indices of reds, greens and blues written: by the clearing loop, by
\* the three set loops and by the blink.
RenderTouched(t) ==
  (0..(n_pixels - 1)) \cup SetBitsTouched(first_second, 0) \cup SetBitsTouched(first_minute, 0) \cup SetBitsTouched(first_hour, 0)
    \cup (IF BlinkNow(t.s) THEN {first_minute, first_hour} ELSE {})
\* pixels.Color(r, g, b): the packed 32-bit colour
Color(r, g, b) == (U8(r) * 65536) + (U8(g) * 256) + U8(b)

\* -------------------------------------------------------------- alert
pi_hour == 10
pi_minute == 49
\* Detect pi o'clock: the condition
IsPiTime(t) == t.h = pi_hour /\ t.m = pi_minute
\* whether this poll calls tone()
AlertFires(t, latch) == IF IsPiTime(t) THEN ~latch ELSE FALSE
\* (as AlertLatch, but without the else branch that resets the flag)
AlertLatch_NoReset(t, latch) == IF IsPiTime(t) THEN TRUE ELSE latch
\* (as AlertLatch, but the flag is set only when the tone is played)
AlertLatch_OnlyOnTone(t, latch) == IF IsPiTime(t) THEN ~latch ELSE FALSE
\* is_pi_oclock after the check
AlertLatch(t, latch) == IF IsPiTime(t) THEN TRUE ELSE FALSE

\* --------------------------------------------------------------- loop
NoFrame == [q \in Pixel |-> 0]
NoLeds == [reds |-> Cleared, greens |-> Cleared, blues |-> Cleared]
NoTime == [h |-> 0, m |-> 0, s |-> 0]
NoPolls == [prev |-> <<>>, run |-> 0, fired |-> 0]
\* The history of one loop iteration: its calls in order, and the indices
\* of the local arrays it wrote.
NoLog == [ev |-> <<>>, idx |-> {}]
ReadLog == [ev |-> <<<<"read", 0>>>>, idx |-> {}]
Logged(l, e) == [l EXCEPT !.ev = Append(l.ev, e)]
\* the history counters stop at 2
UpTo2(n) == IF n < 2 THEN n + 1 ELSE n
\* Read all clock data at once (burst mode)
Loop_BurstRead ==
  /\ main = "loop"
  /\ pc = "idle"
  /\ DS1302_clock_burst_read
  /\ main' = "decode"
  /\ tone' = FALSE
  /\ log' = ReadLog
  /\ UNCHANGED <<pins, chip, regs, dev, nticks, emit, held, sessions>>
  /\ UNCHANGED <<hms, leds, npix, pixels, shown, is_pi_oclock, polls>>
\* const int h, m, s
Loop_Decode ==
  /\ main = "decode"
  /\ pc = "idle"
  /\ hms' = Decode(p)
  /\ main' = "render"
  /\ UNCHANGED busVars
  /\ UNCHANGED <<dev, nticks, leds, npix, pixels, shown, is_pi_oclock, tone, polls, log>>
\* reds, greens, blues: cleared, set from s, m, h, blinked
Loop_Render ==
  /\ main = "render"
  /\ leds' = Render(hms)
  /\ npix' = 0
  /\ log' = [log EXCEPT !.idx = RenderTouched(hms)]
  /\ main' = "setpix"
  /\ UNCHANGED busVars
  /\ UNCHANGED <<dev, nticks, hms, pixels, shown, is_pi_oclock, tone, polls>>
\* (as Loop_SetPixel, but the loop ends one pixel early)
Loop_SetPixel_OneShort ==
  /\ main = "setpix"
  /\ pixels' = [pixels EXCEPT ![npix] = Color(leds.reds[npix], leds.greens[npix], leds.blues[npix])]
  /\ npix' = npix + 1
  /\ log' = Logged(log, <<"set", npix>>)
  /\ main' = IF npix + 1 # n_pixels - 1 THEN "setpix" ELSE "show"
  /\ UNCHANGED busVars
  /\ UNCHANGED <<dev, nticks, hms, leds, shown, is_pi_oclock, tone, polls>>
\* Set pixels: one pass of the loop
Loop_SetPixel ==
  /\ main = "setpix"
  /\ pixels' = [pixels EXCEPT ![npix] = Color(leds.reds[npix], leds.greens[npix], leds.blues[npix])]
  /\ npix' = npix + 1
  /\ log' = Logged(log, <<"set", npix>>)
  /\ main' = IF npix + 1 # n_pixels THEN "setpix" ELSE "show"
  /\ UNCHANGED busVars
  /\ UNCHANGED <<dev, nticks, hms, leds, shown, is_pi_oclock, tone, polls>>
\* pixels.show()
Loop_Show ==
  /\ main = "show"
  /\ shown' = pixels
  /\ log' = Logged(log, <<"show", 0>>)
  /\ main' = "alert"
  /\ UNCHANGED busVars
  /\ UNCHANGED <<dev, nticks, hms, leds, npix, pixels, is_pi_oclock, tone, polls>>
\* Detect pi o'clock
Loop_Alert ==
  /\ main = "alert"
  /\ tone' = AlertFires(hms, is_pi_oclock)
  /\ is_pi_oclock' = AlertLatch(hms, is_pi_oclock)
  /\ polls' = [polls EXCEPT !.run = IF ~(hms.h = 10 /\ hms.m = 49) THEN 0 ELSE IF tone' THEN UpTo2(polls.run) ELSE polls.run,
                            !.fired = IF tone' THEN UpTo2(polls.fired) ELSE polls.fired]
  /\ log' = IF tone' THEN Logged(Logged(log, <<"alert", 0>>), <<"tone", 0>>) ELSE Logged(log, <<"alert", 0>>)
  /\ main' = "delay"
  /\ UNCHANGED busVars
  /\ UNCHANGED <<dev, nticks, hms, leds, npix, pixels, shown>>
\* delay(500), and loop() is called again
Loop_Delay ==
  /\ main = "delay"
  /\ polls' = [polls EXCEPT !.prev = <<hms>>]
  /\ log' = Logged(log, <<"delay", 0>>)
  /\ main' = "loop"
  /\ UNCHANGED busVars
  /\ UNCHANGED <<dev, nticks, hms, leds, npix, pixels, shown, is_pi_oclock, tone>>

\* -------------------------------------------------------------- setup
\* Start by clearing the Write Protect bit
Setup_WriteEnable ==
  /\ main = "setup_enable"
  /\ pc = "idle"
  /\ DS1302_write(DS1302_ENABLE, 0)
  /\ main' = "setup_trickle"
  /\ UNCHANGED <<pins, chip, regs, dev, nticks, emit, held, sessions>>
  /\ UNCHANGED loopVars
\* Disable Trickle Charger
Setup_WriteTrickle ==
  /\ main = "setup_trickle"
  /\ pc = "idle"
  /\ DS1302_write(DS1302_TRICKLE, 0)
  /\ main' = "setup_pixels"
  /\ UNCHANGED <<pins, chip, regs, dev, nticks, emit, held, sessions>>
  /\ UNCHANGED loopVars
\* pixels.begin(); pinMode(pin_piezo, OUTPUT); setup returns
Setup_Pixels ==
  /\ main = "setup_pixels"
  /\ pc = "idle"
  /\ main' = "loop"
  /\ UNCHANGED busVars
  /\ UNCHANGED <<dev, nticks>>
  /\ UNCHANGED loopVars

\* ------------------------------------------------ the whole program
\* The clock registers of a chip that holds time t (24-hour mode) on
\* Saturday 24 January 2015; halted: the clock-halt bit.
ChipRegs(t, halted, wp, trickle) ==
  [j \in RegIdx |->
     CASE j = 0 -> ToBcd(t[3]) + (IF halted THEN 128 ELSE 0)
       [] j = 1 -> ToBcd(t[2])
       [] j = 2 -> ToBcd(t[1])
       [] j = 3 -> 36
       [] j = 4 -> 1
       [] j = 5 -> 6
       [] j = 6 -> 21
       [] j = 7 -> wp
       [] j = 8 -> trickle
       [] OTHER -> 0]
\* The chips the program is started with: running just before a minute and a
\* day rolls over, write-protected or not, or halted at 00:00:00.
InitRegs ==
  {ChipRegs(t, FALSE, wp, 92) : t \in {<<10, 48, 59>>, <<23, 59, 59>>}, wp \in {0, 128}} \cup {ChipRegs(<<0, 0, 0>>, TRUE, 128, 92)}

InitHost ==
  /\ pc = "idle"
  /\ op = "none"
  /\ call = NoCall
  /\ bitio = TogglereadCall
  /\ chip = IdleChip
  /\ nticks = 0
  /\ hms = NoTime
  /\ leds = NoLeds
  /\ npix = 0
  /\ pixels = NoFrame
  /\ shown = NoFrame
  /\ is_pi_oclock = FALSE
  /\ tone = FALSE
  /\ wire = <<>>
  /\ emit = <<>>
  /\ held = {}
  /\ sessions = <<>>
  /\ polls = NoPolls

Init ==
  /\ InitHost
  /\ p = <<>>
  /\ log = NoLog
  /\ main = "setup_enable"
  /\ pins = PowerOnPins
  /\ dev = "ds1302"
  /\ regs \in InitRegs

Next ==
  \/ Setup_WriteEnable
  \/ Setup_WriteTrickle
  \/ Setup_Pixels
  \/ Loop_BurstRead
  \/ BusStep
  \/ Loop_Decode
  \/ Loop_Render
  \/ Loop_SetPixel
  \/ Loop_Show
  \/ Loop_Alert
  \/ Loop_Delay
  \/ ChipTick

Spec == Init /\ [][Next]_vars

\* ------------------------- any sequence of the four protocol operations
\* The register addresses, data bytes and clock images the operations are
\* called with.
OpAddrs == {DS1302_MINUTES + 1, DS1302_ENABLE, DS1302_RAMSTART}
OpData == {0, 165}
OpImages == {ClockImage(ChipRegs(<<15, 14, 15>>, FALSE, 0, 0))}
Ops_Read ==
  /\ main = "ops"
  /\ pc = "idle"
  /\ \E a \in OpAddrs : DS1302_read(a)
  /\ UNCHANGED <<main, pins, chip, regs, dev, nticks, emit, held, sessions>>
  /\ UNCHANGED loopVars
Ops_Write ==
  /\ main = "ops"
  /\ pc = "idle"
  /\ \E a \in OpAddrs, v \in OpData : DS1302_write(a, v)
  /\ UNCHANGED <<main, pins, chip, regs, dev, nticks, emit, held, sessions>>
  /\ UNCHANGED loopVars
Ops_BurstRead ==
  /\ main = "ops"
  /\ pc = "idle"
  /\ DS1302_clock_burst_read
  /\ UNCHANGED <<main, pins, chip, regs, dev, nticks, emit, held, sessions>>
  /\ UNCHANGED loopVars
Ops_BurstWrite ==
  /\ main = "ops"
  /\ pc = "idle"
  /\ \E buf \in OpImages : DS1302_clock_burst_write(buf)
  /\ UNCHANGED <<main, pins, chip, regs, dev, nticks, emit, held, sessions>>
  /\ UNCHANGED loopVars

InitOps ==
  /\ InitHost
  /\ p = <<>>
  /\ log = NoLog
  /\ main = "ops"
  /\ pins = PowerOnPins
  /\ dev = "ds1302"
  /\ regs \in {ChipRegs(<<10, 48, 59>>, FALSE, wp, 92) : wp \in {0, 128}}

NextOps ==
  \/ Ops_Read
  \/ Ops_Write
  \/ Ops_BurstRead
  \/ Ops_BurstWrite
  \/ BusStep

SpecOps == InitOps /\ [][NextOps]_vars

\* ------------------ the program, or the operations, running on and on
\* The processor executes the statement that is next (there is no interrupt
\* and no cancellation): the steps of setup() and loop(), and the pin
\* operations of the protocol operation in progress, are taken when they
\* are possible.  Nothing makes the harness call a further operation, nor
\* the chip's second pass (which is let pass while the program runs).
ProgramStep ==
  \/ Setup_WriteEnable
  \/ Setup_WriteTrickle
  \/ Setup_Pixels
  \/ Loop_BurstRead
  \/ Loop_Decode
  \/ Loop_Render
  \/ Loop_SetPixel
  \/ Loop_Show
  \/ Loop_Alert
  \/ Loop_Delay

InitRun == Init \/ InitOps

NextRun ==
  \/ ProgramStep
  \/ BusStep
  \/ (main \in ProgramPositions /\ ChipTick)
  \/ Ops_Read
  \/ Ops_Write
  \/ Ops_BurstRead
  \/ Ops_BurstWrite

SpecRun == InitRun /\ [][NextRun]_vars /\ WF_vars(ProgramStep) /\ WF_vars(BusStep)

\* ------------------------------------------------- byte loopback
\* One session against a device that sends back the byte it was sent:
\* DS1302_start, DS1302_togglewrite(v, release), DS1302_toggleread, DS1302_stop.
InitLoopback ==
  /\ main = "loopback"
  /\ pc = "start_reset_low"
  /\ op = "loopback"
  /\ \E v \in 0..255, rel \in BOOLEAN : call = [NoCall EXCEPT !.address = v, !.release = rel]
  /\ bitio = TogglereadCall
  /\ p = <<>>
  /\ pins = PowerOnPins
  /\ chip = IdleChip
  /\ dev = "loopback"
  /\ regs = ChipRegs(<<0, 0, 0>>, FALSE, 0, 0)
  /\ nticks = 0
  /\ hms = NoTime
  /\ leds = NoLeds
  /\ npix = 0
  /\ pixels = NoFrame
  /\ shown = NoFrame
  /\ is_pi_oclock = FALSE
  /\ tone = FALSE
  /\ wire = <<>>
  /\ emit = <<>>
  /\ held = {}
  /\ sessions = <<>>
  /\ polls = NoPolls
  /\ log = NoLog

NextLoopback == BusStep

SpecLoopback == InitLoopback /\ [][NextLoopback]_vars

\* -------------------------------------- the loop over arbitrary polls
\* The pins as every protocol operation leaves them.
IdlePins == [rst |-> [mode |-> "OUTPUT", val |-> 0], clk |-> [mode |-> "OUTPUT", val |-> 0], dat |-> [mode |-> "INPUT", val |-> 0]]
\* An image with the given seconds, minutes and hours bytes.
ImageOf(sb, mb, hb) == <<sb, mb, hb, 36, 1, 6, 21, 0>>
ImageAt(t) == ImageOf(ToBcd(t[3]), ToBcd(t[2]), ToBcd(t[1]))
\* The times successive polls may read.
PollTimes == {<<10, 48, 59>>, <<10, 49, 0>>, <<10, 49, 1>>, <<10, 50, 0>>, <<15, 14, 0>>, <<15, 14, 15>>, <<1, 2, 3>>, <<23, 59, 59>>}
\* A whole burst read whose result is whatever the bus delivers.
Loop_Poll ==
  /\ main = "loop"
  /\ pc = "idle"
  /\ \E t \in PollTimes : p' = ImageAt(t)
  /\ op' = "burst_read"
  /\ pins' = IdlePins
  /\ main' = "decode"
  /\ tone' = FALSE
  /\ log' = ReadLog
  /\ UNCHANGED <<pc, call, bitio, chip, regs, dev, nticks, wire, emit, held, sessions>>
  /\ UNCHANGED <<hms, leds, npix, pixels, shown, is_pi_oclock, polls>>

InitLoop ==
  /\ InitHost
  /\ p = <<>>
  /\ log = NoLog
  /\ main = "loop"
  /\ pins = IdlePins
  /\ dev = "ds1302"
  /\ regs = ChipRegs(<<0, 0, 0>>, FALSE, 0, 0)

NextLoop ==
  \/ Loop_Poll
  \/ Loop_Decode
  \/ Loop_Render
  \/ Loop_SetPixel
  \/ Loop_Show
  \/ Loop_Alert
  \/ Loop_Delay

SpecLoop == InitLoop /\ [][NextLoop]_vars

\* ------------------------------- decoding and rendering of one image
\* Every seconds byte, every minutes byte and every hours byte, each with
\* a few values of the other two.
SomeSeconds == {3, 21, 89}
SomeMinutes == {2, 20, 89}
SomeHours == {1, 21, 35}
PureImages ==
  {ImageOf(sb, mb, hb) : sb \in 0..255, mb \in SomeMinutes, hb \in SomeHours}
  \cup {ImageOf(sb, mb, hb) : sb \in SomeSeconds, mb \in 0..255, hb \in SomeHours}
  \cup {ImageOf(sb, mb, hb) : sb \in SomeSeconds, mb \in SomeMinutes, hb \in 0..255}

InitPure ==
  /\ InitHost
  /\ log = ReadLog
  /\ main = "decode"
  /\ pins = IdlePins
  /\ dev = "ds1302"
  /\ regs = ChipRegs(<<0, 0, 0>>, FALSE, 0, 0)
  /\ \E img \in PureImages : p = img

NextPure ==
  \/ Loop_Decode
  \/ Loop_Render
  \/ Loop_SetPixel
  \/ Loop_Show

SpecPure == InitPure /\ [][NextPure]_vars

\* ------------------------------- one loop iteration over any clock image
\* Bytes at the edges of the fields (0x00, 0x0A, 0x10, 0x49, 0x99, 0xAF,
\* 0xFF), and what the other five bytes of the image may be.
EdgeBytes == {0, 10, 16, 73, 153, 175, 255}
SomeTails == {<<36, 1, 6, 21, 0>>, <<0, 0, 0, 0, 0>>, <<255, 255, 255, 255, 255>>}
\* Images that show 10:49:01, with the clock-halt bit, the reserved bits
\* and the 12/24-hour bit clear or set.
PiImages == {<<sb, mb, hb>> \o tl : sb \in {1, 129}, mb \in {73, 201}, hb \in {16, 80, 144, 208}, tl \in SomeTails}
IterImages == PureImages \cup PiImages \cup {<<sb, mb, hb>> \o tl : sb \in EdgeBytes, mb \in EdgeBytes, hb \in EdgeBytes, tl \in SomeTails}
\* What the iteration before decoded: nothing (this is the first), or a time.
EarlierPolls == {<<>>, <<[h |-> 10, m |-> 49, s |-> 1]>>}
\* the strip's pixel buffer after the 12 setPixelColor calls
FrameOf(a) == [q \in Pixel |-> Color(a.reds[q], a.greens[q], a.blues[q])]
\* The burst read of an iteration has just returned some image; the
\* iteration before, if there was one, left its time, its arrays, its frame
\* and the latch behind.
InitIter ==
  /\ pc = "idle"
  /\ op = "burst_read"
  /\ call = NoCall
  /\ bitio = TogglereadCall
  /\ chip = IdleChip
  /\ nticks = 0
  /\ wire = <<>>
  /\ emit = <<>>
  /\ held = {}
  /\ sessions = <<>>
  /\ main = "decode"
  /\ pins = IdlePins
  /\ dev = "ds1302"
  /\ regs = ChipRegs(<<0, 0, 0>>, FALSE, 0, 0)
  /\ tone = FALSE
  /\ log = ReadLog
  /\ \E img \in IterImages : p = img
  /\ \E e \in EarlierPolls :
       /\ polls = [prev |-> e, run |-> IF e # <<>> /\ IsPiTime(e[1]) THEN 1 ELSE 0, fired |-> IF e # <<>> /\ IsPiTime(e[1]) THEN 1 ELSE 0]
       /\ hms = IF e = <<>> THEN NoTime ELSE e[1]
       /\ leds = IF e = <<>> THEN NoLeds ELSE Render(e[1])
       /\ npix = IF e = <<>> THEN 0 ELSE n_pixels
       /\ pixels = IF e = <<>> THEN NoFrame ELSE FrameOf(Render(e[1]))
       /\ shown = IF e = <<>> THEN NoFrame ELSE FrameOf(Render(e[1]))
       /\ is_pi_oclock = IF e = <<>> THEN FALSE ELSE AlertLatch(e[1], FALSE)

NextIter ==
  \/ Loop_Decode
  \/ Loop_Render
  \/ Loop_SetPixel
  \/ Loop_Show
  \/ Loop_Alert
  \/ Loop_Delay

SpecIter == InitIter /\ [][NextIter]_vars

\* =====================================================================
\* Properties
\* =====================================================================
\* the 8 bits of a byte, least significant first
BitsOf(v) == [j \in 1..8 |-> (v \div (2 ^ (j - 1))) % 2]
\* the byte whose bits, least significant first, are bs[from+1 .. from+8]
ByteAt(bs, from) == LET W(j) == bs[from + j + 1] * (2 ^ j) IN W(0) + W(1) + W(2) + W(3) + W(4) + W(5) + W(6) + W(7)
\* The bus events of a byte written (one per rising clock edge) and of a
\* byte read (one per sample), least significant bit first.
Written(v) == [j \in 1..8 |-> <<"W", BitsOf(v)[j]>>]
Sampled(v) == [j \in 1..8 |-> <<"R", BitsOf(v)[j]>>]
\* The byte spelled, least significant bit first, by wire[from+1 .. from+8].
WireByte(from) == ByteAt([j \in 1..8 |-> wire[from + j][2]], 0)
Kinds(from, to) == {wire[j][1] : j \in from..to}
SessionOpen == <<"S", 0>>
SessionClose == <<"E", 0>>
Released == <<"Z", 1>>

\* C1: byte loopback.  A byte written with DS1302_togglewrite and the bus
\* released (DS1302_toggleread's precondition), then read with
\* DS1302_toggleread from a device that shifts in one bit per rising clock
\* edge and shifts the same bits out one per falling edge, comes back
\* unchanged, for all 256 values; bit 0 is the first bit on the wire in both
\* directions.
C1_ByteLoopback ==
  (main = "loopback" /\ pc = "idle" /\ call.release) =>
    /\ call.ret = call.address
    /\ wire = <<SessionOpen>> \o Written(call.address) \o <<Released>> \o Sampled(call.address) \o <<SessionClose>>
    /\ emit = BitsOf(call.address)
C1_Witness ==
  /\ main = "loopback"
  /\ pc = "idle"
  /\ call.release
  /\ call.address = 29
  /\ call.ret = 29
  /\ wire[2] = <<"W", 1>>
  /\ wire[9] = <<"W", 0>>

\* C2: burst framing.  In the program's burst read no data bit is sampled
\* before the 8 bits of the command byte 0xBF have been clocked out, and when
\* it has returned the k-th byte of the buffer is the k-th byte the chip
\* emitted, which is the chip's k-th clock register (seconds, minutes, hours,
\* date, month, day, year, control).
C2_BurstFraming ==
  /\ (op = "burst_read" /\ \E n \in 1..Len(wire) : wire[n][1] = "R") =>
       /\ Len(wire) > 10
       /\ SubSeq(wire, 1, 10) = <<SessionOpen>> \o Written(191) \o <<Released>>
       /\ \A n \in 1..Len(wire) : wire[n][1] = "R" => n > 10
  /\ (main = "decode" /\ pc = "idle") =>
       /\ Len(p) = 8
       /\ Len(emit) = 64
       /\ \A k \in 0..7 : p[k + 1] = ByteAt(emit, 8 * k)
       /\ \A k \in 0..7 : \E img \in held : p[k + 1] = img[k + 1]
C2_Witness ==
  /\ main = "decode"
  /\ pc = "idle"
  /\ p = <<89, 72, 16, 36, 1, 6, 21, 0>>
  /\ Len(wire) = 75

\* The time of day a clock image shows, <<hour, minute, second>>.
ImageTime(img) == <<((img[3] \div 16) % 4) * 10 + (img[3] % 16), ((img[2] \div 16) % 8) * 10 + (img[2] % 16), ((img[1] \div 16) % 8) * 10 + (img[1] % 16)>>
\* C3: burst consistency.  The select line stays active from the first
\* command bit to the 64th sampled data bit of the burst read (one session,
\* never closed in between), and with a chip that latches its clock
\* registers on the burst-read command and whose time may advance between
\* any two pin operations of the host, the (hour, minute, second) a loop
\* iteration decodes is a time the chip held at one instant of that session.
C3_BurstConsistent ==
  /\ (op = "burst_read" /\ pc \in {"tw_data", "tw_clock_up", "tw_release", "tw_clock_down", "tr_up", "tr_down", "tr_read", "stop"}) =>
       /\ Level(pins, "rst") = 1
       /\ Kinds(1, Len(wire)) \subseteq {"S", "W", "Z", "R"}
       /\ wire[1] = SessionOpen
       /\ \A n \in 2..Len(wire) : wire[n][1] # "S"
  /\ (op = "burst_read" /\ pc = "stop") => Len(wire) = 74 /\ Kinds(11, 74) = {"R"}
  /\ main \in {"render", "setpix", "show", "alert", "delay"} =>
       <<hms.h, hms.m, hms.s>> \in {ImageTime(img) : img \in held}
C3_Witness ==
  /\ main = "render"
  /\ <<hms.h, hms.m, hms.s>> = <<10, 48, 59>>
  /\ ChipTime(regs) = <<10, 49, 0>>
  /\ Cardinality(held) = 2

\* C4: register access framing.  DS1302_read(a) is one session: the command
\* byte a with bit 0 set, the bus released, 8 sampled bits (the value
\* returned).  DS1302_write(a, v) is one session: the command byte a with
\* bit 0 cleared, then v, without release.  In every session of the four
\* operations bit 0 of the command byte is 1 exactly when the host goes on
\* to read and 0 when it goes on to write, and its bit 7 is 1.
C4_RegisterFraming ==
  /\ (op = "read" /\ pc = "idle") =>
       wire = <<SessionOpen>> \o Written(((call.arg \div 2) * 2) + 1) \o <<Released>> \o Sampled(call.ret) \o <<SessionClose>>
  /\ (op = "write" /\ pc = "idle") =>
       wire = <<SessionOpen>> \o Written((call.arg \div 2) * 2) \o Written(call.data) \o <<SessionClose>>
  /\ Len(wire) >= 10 =>
       /\ Kinds(2, 9) = {"W"}
       /\ WireByte(1) >= 128
       /\ WireByte(1) % 2 = 1 <=> wire[10][1] = "Z"
       /\ WireByte(1) % 2 = 0 <=> wire[10][1] = "W"
       /\ wire[10][1] = "Z" => \A n \in 11..Len(wire) : wire[n][1] \in {"R", "E"}
       /\ wire[10][1] = "W" => \A n \in 11..Len(wire) : wire[n][1] \in {"W", "E"}
C4_Witness ==
  /\ op = "read"
  /\ pc = "idle"
  /\ call.arg = DS1302_RAMSTART
  /\ call.ret = 165
  /\ regs[7] = 0

\* What the previous poll decoded, if there was one.
PrevPollAt(h, m) == polls.prev # <<>> /\ polls.prev[1].h = h /\ polls.prev[1].m = m

C6_BeepsAtPiOClockPM ==
  main = "delay" =>
    /\ tone => (hms.h = 15 /\ hms.m = 14)
    /\ (hms.h = 15 /\ hms.m = 14 /\ ~PrevPollAt(15, 14)) => tone

\* The channels of a packed colour.
RedOf(c) == (c \div 65536) % 256
GreenOf(c) == (c \div 256) % 256
BlueOf(c) == c % 256
\* The frame the strip displays, channel by channel.
RedOn(q) == RedOf(shown[q]) = 32
GreenOn(q) == GreenOf(shown[q]) = 32
BlueOn(q) == BlueOf(shown[q]) = 32
OnOrOff(q) == RedOf(shown[q]) \in {0, 32} /\ GreenOf(shown[q]) \in {0, 32} /\ BlueOf(shown[q]) \in {0, 32}
\* The channel that the bit mapping gives position q for a value whose
\* zone starts at `first`: on iff q is the position of a set bit 0..5.
Mapped(value, first, q) == \E i \in 0..5 : q = (first + i) % 12 /\ (value \div (2 ^ i)) % 2 = 1
\* The frame in the letters of the FAQ: R, G, B, Y = R + G, M = R + B, C = G + B.
Letter(q) ==
  CASE RedOn(q) /\ ~GreenOn(q) /\ ~BlueOn(q) -> "R"
    [] ~RedOn(q) /\ GreenOn(q) /\ ~BlueOn(q) -> "G"
    [] ~RedOn(q) /\ ~GreenOn(q) /\ BlueOn(q) -> "B"
    [] RedOn(q) /\ GreenOn(q) /\ ~BlueOn(q) -> "Y"
    [] RedOn(q) /\ ~GreenOn(q) /\ BlueOn(q) -> "M"
    [] ~RedOn(q) /\ GreenOn(q) /\ BlueOn(q) -> "C"
    [] RedOn(q) /\ GreenOn(q) /\ BlueOn(q) -> "W"
    [] OTHER -> "-"
Letters == [j \in 1..12 |-> Letter(j - 1)]
Rendered == main = "alert"

\* C7: display mapping.  In every frame rendered with s mod 5 # 0, red at
\* position (0 + i) mod 12 is on iff bit i of s is set, green at (4 + i) mod 12
\* iff bit i of m, blue at (8 + i) mod 12 iff bit i of h (i in 0..5), and
\* every other channel is off; 1:02:03 lights red {0, 1}, green {5}, blue {8}
\* only, and 23:59:59 gives M R - R Y Y - G C C B -.
C7_DisplayMapping ==
  (Rendered /\ hms.s % 5 # 0) =>
    /\ \A q \in 0..11 :
         /\ OnOrOff(q)
         /\ RedOn(q) <=> Mapped(hms.s, 0, q)
         /\ GreenOn(q) <=> Mapped(hms.m, 4, q)
         /\ BlueOn(q) <=> Mapped(hms.h, 8, q)
    /\ (hms.h = 1 /\ hms.m = 2 /\ hms.s = 3) =>
         Letters = <<"R", "R", "-", "-", "-", "G", "-", "-", "B", "-", "-", "-">>
    /\ (hms.h = 23 /\ hms.m = 59 /\ hms.s = 59) =>
         Letters = <<"M", "R", "-", "R", "Y", "Y", "-", "G", "C", "C", "B", "-">>
C7_Witness ==
  /\ Rendered
  /\ hms = [h |-> 23, m |-> 59, s |-> 59]
  /\ Letter(0) = "M"

Decoded == main = "render"
LowDigit(byte) == byte % 16
SecHigh == (p[1] \div 16) % 8
MinHigh == (p[2] \div 16) % 8
HourHigh == (p[3] \div 16) % 4
\* C10 as stated: for a field byte whose low nibble is in 0..9 and whose high
\* digit is within the field's maximum (0..5 seconds and minutes, 0..2 hours)
\* the decoded value is high * 10 + low and lies in 0..59, for hours in 0..23.
C10_BcdDecodeInRange ==
  Decoded =>
    /\ (LowDigit(p[1]) <= 9 /\ SecHigh <= 5) => (hms.s = SecHigh * 10 + LowDigit(p[1]) /\ hms.s \in 0..59)
    /\ (LowDigit(p[2]) <= 9 /\ MinHigh <= 5) => (hms.m = MinHigh * 10 + LowDigit(p[2]) /\ hms.m \in 0..59)
    /\ (LowDigit(p[3]) <= 9 /\ HourHigh <= 2) => (hms.h = HourHigh * 10 + LowDigit(p[3]) /\ hms.h \in 0..23)
\* C10, amended: as stated for seconds and minutes; for hours the decoded
\* value is high * 10 + low and lies in 0..29, and in 0..23 when the
\* low digit is at most 3 wherever the high digit is 2.
C10_BcdDecode ==
  Decoded =>
    /\ (LowDigit(p[1]) <= 9 /\ SecHigh <= 5) => (hms.s = SecHigh * 10 + LowDigit(p[1]) /\ hms.s \in 0..59)
    /\ (LowDigit(p[2]) <= 9 /\ MinHigh <= 5) => (hms.m = MinHigh * 10 + LowDigit(p[2]) /\ hms.m \in 0..59)
    /\ (LowDigit(p[3]) <= 9 /\ HourHigh <= 2) => (hms.h = HourHigh * 10 + LowDigit(p[3]) /\ hms.h \in 0..29)
    /\ (LowDigit(p[3]) <= 9 /\ HourHigh <= 2 /\ (HourHigh = 2 => LowDigit(p[3]) <= 3)) => hms.h \in 0..23
C10_Witness ==
  /\ Decoded
  /\ p[1] = 217
  /\ hms.s = 59
  /\ p[3] = 35
  /\ hms.h = 23

\* The set-pixel calls logged in this iteration, and the kinds of its events.
SetCalls == {log.ev[n][2] : n \in {k \in 1..Len(log.ev) : log.ev[k][1] = "set"}}
EventKinds == {log.ev[n][1] : n \in 1..Len(log.ev)}
\* C11: never fail hard.  For every clock image the burst read may return
\* (all bytes zero, all bytes 0xFF, nibbles above 9, any other five bytes)
\* the iteration has no error state: h, m and s are numbers within the
\* width of their bit-fields, every index written in reds, greens, blues and
\* in the strip is within 0..11, all 12 pixels are set before the show, the
\* frame shown is the frame set, and no state before the end of the delay
\* is without a next step, so the alert check and the delay are reached.
C11_NeverFailHard ==
  /\ main \in {"render", "setpix", "show", "alert", "delay", "loop"} => (hms.h \in 0..45 /\ hms.m \in 0..85 /\ hms.s \in 0..85)
  /\ log.idx \subseteq 0..11
  /\ SetCalls \subseteq 0..11
  /\ main \in {"setpix", "show", "alert", "delay", "loop"} => log.idx = 0..11
  /\ main \in {"alert", "delay", "loop"} => (SetCalls = 0..11 /\ shown = pixels /\ "show" \in EventKinds)
  /\ main \in {"delay", "loop"} => "alert" \in EventKinds
  /\ main = "loop" => log.ev[Len(log.ev)] = <<"delay", 0>>
  /\ main # "loop" => ENABLED NextIter
C11_Witness ==
  /\ main = "loop"
  /\ p = <<255, 255, 255, 255, 255, 255, 255, 255>>
  /\ hms = [h |-> 45, m |-> 85, s |-> 85]
  /\ Len(log.ev) = 16
  /\ shown[11] # 0

\* The sessions of the program as the chip saw them.
WriteSession(cmd, v) == [out |-> <<cmd, v>>, nread |-> 0]
BurstReadSession == [out |-> <<191>>, nread |-> 64]
\* C12: startup configuration.  On every power-on (chip write-protected or
\* not, running or halted) the first session of the program writes 0x00 with
\* command byte 0x8E, the second writes 0x00 with command byte 0x90, nothing
\* is sampled in either (no read-back), and every session after them is a
\* burst read: no burst read starts before both are closed, and no session
\* carries the burst-write command 0xBE.
C12_StartupConfiguration ==
  /\ Len(sessions) >= 1 => sessions[1] = WriteSession(142, 0)
  /\ Len(sessions) >= 2 => sessions[2] = WriteSession(144, 0)
  /\ \A k \in 3..Len(sessions) : sessions[k] = BurstReadSession
  /\ \A k \in 1..Len(sessions) : sessions[k].out[1] # 190
  /\ main = "setup_enable" => sessions = <<>>
  /\ (main = "setup_trickle" /\ pc = "idle") => Len(sessions) = 1
  /\ (main = "setup_pixels" /\ pc = "idle") => Len(sessions) = 2
  /\ (main = "loop" /\ op # "burst_read") => Len(sessions) = 2
  /\ (op = "burst_read" /\ pc # "idle") => Len(sessions) >= 2
  /\ op \in {"none", "write", "burst_read"}
C12_Witness ==
  /\ main = "decode"
  /\ pc = "idle"
  /\ Len(sessions) = 3
  /\ sessions[2] = WriteSession(144, 0)
  /\ sessions[3] = BurstReadSession
  /\ regs[7] = 0
  /\ regs[8] = 0

ReadEntry == pc = "tr_up" /\ bitio.i = 0 /\ op \in {"read", "burst_read"}
WriteEdges == Cardinality({n \in 1..Len(wire) : wire[n][1] = "W"})
\* Whether the operation in progress writes its command byte with release.
WithRelease == op \in {"read", "burst_read"} \/ (op = "loopback" /\ call.release)
\* DS1302_togglewrite has just returned: to the next DS1302_togglewrite, to
\* DS1302_stop, or to DS1302_toggleread.
WriteReturnedToWrite == pc = "tw_data" /\ bitio.i = 0 /\ call.nw >= 1
WriteReturnedToStop == pc = "stop" /\ op \in {"write", "burst_write"}
WriteReturnedToRead == pc = "tr_up" /\ bitio.i = 0 /\ call.nr = 0
\* C15: bus turnaround in DS1302_togglewrite.  The host sets a data bit only
\* with the clock low and the data pin an output, every clock-up of a call
\* is a true rising edge (the clock is low before it), and a call makes
\* exactly 8 of them.  Without release the call returns with the clock low
\* and the data pin an output; with release it returns with the clock high
\* and the data pin an input, the switch to input being the host's next pin
\* operation after the 8th rising edge, made with the clock still high.
C15_BusTurnaround ==
  /\ pc = "tw_data" => (Level(pins, "clk") = 0 /\ pins.dat.mode = "OUTPUT" /\ WriteEdges = (8 * call.nw) + bitio.i)
  /\ pc = "tw_clock_up" => (Level(pins, "clk") = 0 /\ pins.dat.mode = "OUTPUT" /\ WriteEdges = (8 * call.nw) + bitio.i)
  /\ pc = "tw_clock_down" => (Level(pins, "clk") = 1 /\ pins.dat.mode = "OUTPUT" /\ WriteEdges = (8 * call.nw) + bitio.i + 1)
  /\ pc = "tw_release" => (Level(pins, "clk") = 1 /\ pins.dat.mode = "OUTPUT" /\ bitio.i = 7 /\ bitio.release /\ WriteEdges = 8)
  /\ pc \in {"tw_data", "tw_clock_up", "tw_clock_down", "tw_release"} => bitio.i \in 0..7
  /\ (WriteReturnedToWrite \/ WriteReturnedToStop) =>
       /\ Level(pins, "clk") = 0
       /\ pins.dat.mode = "OUTPUT"
       /\ WriteEdges = 8 * call.nw
       /\ \A n \in 1..Len(wire) : wire[n][1] # "Z"
  /\ (WriteReturnedToRead /\ WithRelease) =>
       /\ Level(pins, "clk") = 1
       /\ pins.dat.mode = "INPUT"
       /\ WriteEdges = 8
       /\ Len(wire) = 10
       /\ wire[9][1] = "W"
       /\ wire[10] = <<"Z", 1>>
  /\ (WriteReturnedToRead /\ ~WithRelease) => (Level(pins, "clk") = 0 /\ pins.dat.mode = "OUTPUT" /\ WriteEdges = 8)
C15_Witness ==
  /\ WriteReturnedToRead
  /\ op = "read"
  /\ Level(pins, "clk") = 1
  /\ pins.dat.mode = "INPUT"
  /\ chip.phase = "rd"
  /\ chip.out = -1

\* The chip drives the data line.
ChipDrives == chip.out # -1
\* C16: no bus contention.  Over any sequence of the four operations the
\* data pin is an output whenever the host sets a bit on it and an input
\* whenever the host samples it; the chip drives the line exactly from the
\* first falling clock edge after the 8th rising edge of a read command
\* until select goes inactive, and the data pin is an input all that time.
C16_NoContention ==
  /\ pc \in {"tw_data", "tw_clock_up"} => pins.dat.mode = "OUTPUT"
  /\ pc = "tr_read" => pins.dat.mode = "INPUT"
  /\ ChipDrives => pins.dat.mode = "INPUT"
  /\ ChipDrives <=> (chip.phase = "rd" /\ chip.oidx >= 1)
  /\ ChipDrives => (Level(pins, "rst") = 1 /\ chip.nbits = 8 /\ chip.cmd % 2 = 1 /\ op \in {"read", "burst_read"})
  /\ pc = "tr_read" => ChipDrives
  /\ pc = "idle" => ~ChipDrives
C16_Witness ==
  /\ pc = "tr_read"
  /\ op = "read"
  /\ chip.out = 1
  /\ pins.dat.mode = "INPUT"
  /\ call.arg = DS1302_RAMSTART
  /\ regs[32] = 165

\* No session has been opened since power-on (the chip notes the clock image
\* it holds whenever select goes active).
NoSessionYet == held = {}
InStart == pc \in {"start_reset_low", "start_reset_output", "start_clock_low", "start_clock_output", "start_data_output", "start_reset_high"}
AllOutputs == pins.rst.mode = "OUTPUT" /\ pins.clk.mode = "OUTPUT" /\ pins.dat.mode = "OUTPUT"
\* C17: no init phase needed.  Whichever of the four operations is called
\* first, with the three pins still unconfigured inputs: until select is
\* activated no bit is driven and no clock edge produced, and at the moment
\* select is activated select, clock and data are outputs, with select and
\* clock low; bits are driven and the clock is pulsed only after that.
C17_NoInitPhase ==
  /\ (NoSessionYet /\ pc = "idle") => (pins = PowerOnPins /\ op = "none")
  /\ NoSessionYet =>
       /\ pc = "idle" \/ InStart
       /\ wire = <<>>
       /\ chip = IdleChip
       /\ pins.rst.val = 0
       /\ pins.clk.val = 0
       /\ pins.dat.val = 0
  /\ (NoSessionYet /\ pc = "start_reset_high") => AllOutputs
  /\ (NoSessionYet /\ pc = "start_reset_low") => (pins = PowerOnPins /\ op \in {"read", "write", "burst_read", "burst_write"})
  /\ ~NoSessionYet => (pins.rst.mode = "OUTPUT" /\ pins.clk.mode = "OUTPUT")
  /\ pc \in {"tw_data", "tw_clock_up", "tw_clock_down", "tw_release", "tr_up", "tr_down", "tr_read"} => (~NoSessionYet /\ Level(pins, "rst") = 1)
C17_Witness ==
  /\ NoSessionYet
  /\ pc = "start_reset_high"
  /\ op = "burst_write"
  /\ AllOutputs
  /\ Level(pins, "rst") = 0
  /\ Level(pins, "clk") = 0

\* The calls of one whole loop iteration, with and without the tone.
IterationCalls(withTone) ==
  <<<<"read", 0>>>> \o [j \in 1..12 |-> <<"set", j - 1>>] \o <<<<"show", 0>>, <<"alert", 0>>>> \o (IF withTone THEN <<<<"tone", 0>>>> ELSE <<>>) \o <<<<"delay", 0>>>>
IsPrefix(a, b) == Len(a) <= Len(b) /\ a = SubSeq(b, 1, Len(a))
InLoop == main \in {"decode", "render", "setpix", "show", "alert", "delay"}
\* C18: loop ordering and atomic frame update.  What an iteration has done
\* is at every moment a prefix of: one burst read, setPixelColor for
\* 0, 1, ..., 11, one show, the alert check (with the tone, if any, inside
\* it), the delay; the bus is used only by that one burst read, which has
\* stored its 8 bytes before anything is decoded; and when the iteration
\* ends it has done all of it.
C18_LoopOrdering ==
  /\ InLoop => (IsPrefix(log.ev, IterationCalls(TRUE)) \/ IsPrefix(log.ev, IterationCalls(FALSE)))
  /\ main = "decode" => (log.ev = <<<<"read", 0>>>> /\ op = "burst_read")
  /\ main \in {"render", "setpix", "show", "alert", "delay"} => (pc = "idle" /\ Len(p) = 8 /\ op = "burst_read")
  /\ main = "render" => Len(log.ev) = 1
  /\ main = "setpix" => (Len(log.ev) = 1 + npix /\ npix \in 0..11)
  /\ main = "show" => Len(log.ev) = 13
  /\ main = "alert" => (Len(log.ev) = 14 /\ log.ev[14] = <<"show", 0>>)
  /\ main = "delay" => (log.ev = SubSeq(IterationCalls(tone), 1, Len(log.ev)) /\ Len(log.ev) = Len(IterationCalls(tone)) - 1)
  /\ (main = "loop" /\ log # NoLog) => log.ev = IterationCalls(tone)
C18_Witness ==
  /\ main = "loop"
  /\ tone
  /\ log.ev = IterationCalls(TRUE)
  /\ Len(log.ev) = 17
  /\ Len(sessions) = 3

\* The bits moved over the data line in this operation so far.
BitTransfers == Cardinality({n \in 1..Len(wire) : wire[n][1] \in {"W", "R"}})
TransfersOf(o) == IF o \in {"read", "write"} THEN 16 ELSE 72
Operations == {"read", "write", "burst_read", "burst_write"}
\* What holds in every state of C19: an operation in progress has not moved
\* more bits than its fixed number, a finished one has moved exactly that
\* number, and select is low whenever no operation is in progress, high
\* from the first to the last bit.
RunsToCompletion ==
  /\ op \in Operations => BitTransfers <= TransfersOf(op)
  /\ (op \in Operations /\ pc \in {"idle", "stop"}) => BitTransfers = TransfersOf(op)
  /\ pc = "idle" => (Level(pins, "rst") = 0 /\ chip.phase = "idle")
  /\ (pc = "idle" /\ op \in Operations) => wire[Len(wire)][1] = "E"
  /\ pc \in {"tw_data", "tw_clock_up", "tw_clock_down", "tw_release", "tr_up", "tr_down", "tr_read", "stop"} => Level(pins, "rst") = 1
\* C19: run to completion.  Every operation moves a fixed number of bits (16
\* for DS1302_read and DS1302_write, 72 for the two bursts) and ends with
\* select low; an operation begun always returns, a session opened is always
\* closed, and every loop iteration reaches its delay and is followed by
\* another burst read.
C19_RunToCompletion ==
  /\ []RunsToCompletion
  /\ (pc # "idle") ~> (pc = "idle")
  /\ (Level(pins, "rst") = 1) ~> (Level(pins, "rst") = 0)
  /\ (main = "decode") ~> (main = "delay")
  /\ (main = "delay") ~> (main = "decode" /\ pc # "idle")
C19_Witness ==
  /\ pc = "idle"
  /\ op = "burst_write"
  /\ BitTransfers = 72
  /\ Level(pins, "rst") = 0
  /\ regs[2] = 21

\* What holds in every state of C20: the clock is low wherever select is
\* low, and the bus history of every operation opens and closes its session
\* with the clock low.
ClockLowOutsideSessions ==
  /\ Level(pins, "rst") = 0 => Level(pins, "clk") = 0
  /\ (pc = "idle" \/ InStart) => (Level(pins, "rst") = 0 /\ Level(pins, "clk") = 0)
  /\ \A n \in 1..Len(wire) : wire[n][1] \in {"S", "E"} => wire[n][2] = 0
\* What holds of every step of C20: select goes active only with the clock
\* low before and after, and the clock level does not change in a step
\* that starts or ends with select low.
NoEdgeOutsideSessions ==
  /\ (Level(pins, "rst") = 0 /\ Level(pins', "rst") = 1) => (Level(pins, "clk") = 0 /\ Level(pins', "clk") = 0)
  /\ (Level(pins, "rst") = 0 \/ Level(pins', "rst") = 0) => Level(pins', "clk") = Level(pins, "clk")
\* C20: the clock idles low outside sessions.  Over any sequence of the four
\* operations the clock line is low in every state in which select is
\* inactive, select goes active only with the clock low, and no clock edge
\* is produced while select is inactive.
C20_ClockIdlesLow ==
  /\ []ClockLowOutsideSessions
  /\ [][NoEdgeOutsideSessions]_vars
C20_Witness ==
  /\ pc = "start_reset_high"
  /\ op = "burst_read"
  /\ ~NoSessionYet
  /\ pins.dat.mode = "OUTPUT"
  /\ Level(pins, "clk") = 0
  /\ call.nr = 0

\* setup() has returned.
SetupDone == main \in {"loop", "decode", "render", "setpix", "show", "alert", "delay"}
\* What holds in every state of C21: once setup has returned, an operation
\* begun is the burst read, the command byte it clocks out is 0xBF bit by
\* bit (so no command with bit 0 clear), the chip is never taking data in,
\* and the session history has nothing but burst reads after the two
\* sessions of setup.
OnlyBurstReads ==
  /\ (SetupDone /\ pc # "idle") => (op = "burst_read" /\ main = "decode")
  /\ (SetupDone /\ op = "burst_read") =>
       /\ \A n \in 2..Len(wire) : (n <= 9 => wire[n] = <<"W", IF n = 8 THEN 0 ELSE 1>>)
       /\ Len(wire) >= 9 => (WireByte(1) = 191 /\ WireByte(1) % 2 = 1)
       /\ \A n \in 10..Len(wire) : wire[n][1] # "W"
  /\ SetupDone => chip.phase \in {"idle", "cmd", "rd"}
  /\ (SetupDone /\ chip.phase = "rd") => chip.cmd = 191
  /\ \A k \in 3..Len(sessions) : sessions[k] = [out |-> <<191>>, nread |-> 64]
\* What holds of every step of C21: once setup has returned, the chip's
\* registers change only by the chip's own second passing.
RegistersKept ==
  SetupDone => (regs' = regs \/ (regs' = TickRegs(regs) /\ nticks' = nticks + 1 /\ pins' = pins /\ pc' = pc))
\* C21: the polling loop is read-only towards the chip.  Once setup has
\* finished every session the program opens is a burst read with command
\* byte 0xBF, no command byte with bit 0 clear is sent again, and no step of
\* the program changes a register of the chip (seconds with clock-halt,
\* minutes, hours, date, write-protect, trickle charger, RAM), however many
\* iterations run.
C21_LoopReadOnly ==
  /\ []OnlyBurstReads
  /\ [][RegistersKept]_vars
C21_Witness ==
  /\ main = "decode"
  /\ pc = "stop"
  /\ polls.prev # <<>>
  /\ polls.prev[1].m = 48
  /\ nticks = 2
  /\ regs[7] = 0
  /\ regs[8] = 0
  /\ regs[1] = 73

\* The images another execution's poll may return that agree with img on
\* bits 0-6 of the seconds byte, bits 0-6 of the minutes byte and bits 0-5 of
\* the hours byte: any clock-halt bit, reserved bits, 12/24-hour bit and
\* other five bytes.
SameDigits(img) ==
  {<<sb, mb, hb>> \o tl : sb \in {(img[1] % 128) + (128 * k) : k \in 0..1}, mb \in {(img[2] % 128) + (128 * k) : k \in 0..1},
                          hb \in {(img[3] % 64) + (64 * k) : k \in 0..3}, tl \in SomeTails \cup {SubSeq(img, 4, 8)}}
\* The latch as the alert check of this iteration found it (the poll
\* history moves on when the delay ends).
LatchBefore == PrevPollAt(10, 49)
\* C22: frame and alert depend only on the current time digits.  The frame
\* an iteration shows, whatever the iteration before left in the arrays,
\* the pixel buffer and the latch, is the frame that any image with the same
\* time digits gives to an iteration with no history; and the tone decision
\* is the one that any such image gives with the same latch value: tone
\* iff the digits say 10:49 and the latch was false.
C22_DependsOnDigitsOnly ==
  /\ main = "alert" => \A twin \in SameDigits(p) : shown = FrameOf(Render(Decode(twin)))
  /\ main \in {"alert", "delay", "loop"} => pixels = shown
  /\ main = "delay" =>
       /\ \A twin \in SameDigits(p) : tone = AlertFires(Decode(twin), LatchBefore)
       /\ tone <=> (ImageTime(p)[1] = 10 /\ ImageTime(p)[2] = 49 /\ ~LatchBefore)
  /\ main = "alert" => (is_pi_oclock <=> LatchBefore)
C22_Witness ==
  /\ main = "delay"
  /\ p = <<129, 201, 208, 255, 255, 255, 255, 255>>
  /\ hms = [h |-> 10, m |-> 49, s |-> 1]
  /\ tone
  /\ ~LatchBefore
  /\ shown = FrameOf(Render(Decode(<<1, 73, 16, 36, 1, 6, 21, 0>>)))
====
